---- MODULE Spec2Model ----
(***************************************************************************)
(* Signed subsets (signed_subset_element.py) and the covector oriented     *)
(* matroid built from them (covector_oriented_matroid.py).                  *)
(*                                                                         *)
(* Python values are tagged records: the field k names the kind of value   *)
(* ("None", "int", "str", "set", "tuple", "dict", "list", "Element",       *)
(* "Parent"), so that a test such as `x is None` or isinstance(x, tuple)   *)
(* is a test of k.  Labels of a ground set are integers; a character used  *)
(* as a label ('e', or the members of set('x')) is its code point.         *)
(* A call ends in Return(v) or in Raise(type, msg).                        *)
(*                                                                         *)
(* State: the matroid (groundset, covectors), the last call made and its   *)
(* outcome (result.out, with the name of the operation beside it).         *)
(***************************************************************************)
EXTENDS Integers, Sequences, FiniteSets, TLC

VARIABLES groundset, covectors, call, result
vars == <<groundset, covectors, call, result>>

(* ---------------------------- bounds ----------------------------------- *)
MaxGround == 2
MaxCov == 2
MaxLen == 2

(* ------------------------- Python values ------------------------------- *)
None == [k |-> "None"]
PyInt(n) == [k |-> "int", v |-> n]
PyStr(s) == [k |-> "str", v |-> s]
Coll(S) == [k |-> "set", v |-> S]
Tuple(s) == [k |-> "tuple", v |-> s]
Dict(f) == [k |-> "dict", v |-> f]
List(s) == [k |-> "list", v |-> s]
Return(v) == [k |-> "return", v |-> v]
Raise(type, msg) == [k |-> "raise", type |-> type, msg |-> msg]

\* A parent object; groundset is None when it has no groundset() to call
\* (a bare Parent(), or a matroid whose __init__ has not yet set _groundset).
ParentObj(gs, fl) == [k |-> "Parent", groundset |-> gs, face_lattice |-> fl]

ord(c) ==
    CASE c = "+" -> 43
      [] c = "-" -> 45
      [] c = "0" -> 48
      [] c = "e" -> 101
      [] c = "f" -> 102
      [] c = "x" -> 120
      [] c = "y" -> 121

\* set(item): the members of a collection; a string is the collection of
\* its characters; an int is not iterable.
PySet(item) ==
    CASE item.k = "set" -> Return(item.v)
      [] item.k = "str" -> Return(IF item.v = "" THEN {} ELSE {ord(item.v)})
      [] item.k = "list" -> Return({item.v[i] : i \in DOMAIN item.v})
      [] OTHER -> Raise("TypeError", "object is not iterable")

Range(s) == {s[i] : i \in DOMAIN s}

\* The orders in which a set of labels can be iterated.  Integers that sit
\* in their own slot of the hash table (0..7 in the smallest table, or all of
\* 0..n-1) come out ascending; for other labels the order depends on the
\* hash seed and on the history of the table, so every order can occur.
IterationOrders(S) ==
    LET lists == {s \in [1..Cardinality(S) -> S] :
                     \A i, j \in 1..Cardinality(S) : s[i] = s[j] => i = j}
    IN IF S \subseteq 0..7 \/ S = 0..(Cardinality(S) - 1)
       THEN {s \in lists : \A i, j \in 1..Cardinality(S) : i < j => s[i] < s[j]}
       ELSE lists

\* list(S) of a set of labels: order, when the run can iterate S that way,
\* and otherwise one of the orders it can.
SetToList(S, order) ==
    IF order \in IterationOrders(S) THEN order
    ELSE CHOOSE s \in IterationOrders(S) : TRUE

(* --------------------- SignedSubsetElement.__init__ -------------------- *)
\* The sign a ternary token stands for; 2 for a token that is none of
\* -1, 0, 1, '+', '-', '0', ''.
TokenSign(j) ==
    IF (j.k = "int" /\ j.v = -1) \/ (j.k = "str" /\ j.v = "-") THEN -1
    ELSE IF (j.k = "int" /\ j.v = 1) \/ (j.k = "str" /\ j.v = "+") THEN 1
    ELSE IF (j.k = "int" /\ j.v = 0) \/ (j.k = "str" /\ j.v \in {"", "0"}) THEN 0
    ELSE 2

\* data[0] in [-1, 0, 1, '+', '0', '-', '']
FirstIsToken(j) ==
    \/ j.k = "int" /\ j.v \in {-1, 0, 1}
    \/ j.k = "str" /\ j.v \in {"+", "0", "-", ""}

Sets(p, n, z) == [k |-> "sets", p |-> p, n |-> n, z |-> z]

\* positives is not None
FromKeywords(gs, positives, negatives, zeroes) ==
    IF negatives.k = "None"
    THEN Raise("ValueError", "If positives is set, negatives must be as well")
    ELSE LET p == PySet(positives)
             n == PySet(negatives)
         IN IF p.k = "raise" THEN p
            ELSE IF n.k = "raise" THEN n
            ELSE IF zeroes.k = "None"
                 THEN IF gs.k = "None"
                      THEN Sets(p.v, n.v, {})
                      ELSE Sets(p.v, n.v, (Range(gs.v) \ p.v) \ n.v)
                 ELSE LET z == PySet(zeroes)
                      IN IF z.k = "raise" THEN z ELSE Sets(p.v, n.v, z.v)

\* isinstance(data, tuple) and data[0] is a ternary token
FromVector(gs, d) ==
    LET label(i) == IF gs.k = "None" THEN i - 1 ELSE gs.v[i]
        bad == {i \in DOMAIN d : TokenSign(d[i]) = 2}
    IN IF gs.k # "None" /\ Len(d) # Len(gs.v)
       THEN Raise("ValueError",
                  "Length of vector must be same number of elements as ground set")
       ELSE IF bad # {}
       THEN Raise("ValueError", "Must be tuple of -1, 0, 1")
       ELSE Sets({label(i) : i \in {i \in DOMAIN d : TokenSign(d[i]) = 1}},
                 {label(i) : i \in {i \in DOMAIN d : TokenSign(d[i]) = -1}},
                 {label(i) : i \in {i \in DOMAIN d : TokenSign(d[i]) = 0}})

\* isinstance(data, tuple) and data[0] is no ternary token
FromTuples(gs, d) ==
    LET p == PySet(d[1])
    IN IF p.k = "raise" THEN p
       ELSE IF Len(d) < 2 THEN Raise("IndexError", "tuple index out of range")
       ELSE LET n == PySet(d[2])
            IN IF n.k = "raise" THEN n
               ELSE IF Len(d) > 2
               THEN LET z == PySet(d[3])
                    IN IF z.k = "raise" THEN z ELSE Sets(p.v, n.v, z.v)
               ELSE IF gs.k # "None"
               THEN Sets(p.v, n.v, (Range(gs.v) \ p.v) \ n.v)
               ELSE Sets(p.v, n.v, {})

DictKeys == {"p", "positives", "n", "negatives", "z", "zeroes"}

\* isinstance(data, dict)
FromDict(d) ==
    LET pick(short, long) ==
            IF long \in DOMAIN d THEN d[long]
            ELSE IF short \in DOMAIN d THEN d[short]
            ELSE {}
    IN Sets(pick("p", "positives"), pick("n", "negatives"), pick("z", "zeroes"))

\* The branch of __init__ that fills _p, _n, _z.
ReadData(gs, data, positives, negatives, zeroes) ==
    IF positives.k # "None" THEN FromKeywords(gs, positives, negatives, zeroes)
    ELSE IF data.k = "Element" THEN Sets(data.p, data.n, data.z)
    ELSE IF data.k = "tuple"
         THEN IF Len(data.v) = 0
              THEN Raise("IndexError", "tuple index out of range")
              ELSE IF FirstIsToken(data.v[1])
                   THEN FromVector(gs, data.v)
                   ELSE FromTuples(gs, data.v)
    ELSE IF data.k = "dict" THEN FromDict(data.v)
    ELSE Raise("ValueError",
               "Either positives and negatives are set or data is a tuple, OrientedMatroidELement or a dict")

Element(parent, p, n, z, g) ==
    [k |-> "Element", parent |-> parent, p |-> p, n |-> n, z |-> z, g |-> g]

\* Setup of the ground set, after _p, _n, _z are read.
SetGroundset(parent, gs, s, order) ==
    IF gs.k = "None"
    THEN Return(Element(parent, s.p, s.n, s.z,
                        SetToList(s.p \cup s.n \cup s.z, order)))
    ELSE IF ~((s.p \cup s.n \cup s.z) \subseteq Range(gs.v))
         THEN Raise("ValueError", "Elements must appear in groundset")
         ELSE IF ~(Range(gs.v) \subseteq (s.p \cup s.n \cup s.z))
              THEN Raise("ValueError",
                         "Every element must be either positive, negative or zero")
              ELSE Return(Element(parent, s.p, s.n, s.z, gs.v))

\* order is the iteration order of the set of labels in this run; it is read
\* only when no ground set is known.
__init__(parent, data, groundset_, positives, negatives, zeroes, order) ==
    LET gs == IF groundset_.k # "None" THEN groundset_
              ELSE IF parent.k = "Parent" THEN parent.groundset
              ELSE IF parent.k = "Element" THEN List(parent.g)
              ELSE None
        noparent == parent.k = "None"
                    \/ (data.k = "None" /\ gs.k = "None" /\ positives.k = "None")
        data1 == IF noparent THEN parent ELSE data
        parent1 == IF noparent THEN ParentObj(None, FALSE) ELSE parent
        s == ReadData(gs, data1, positives, negatives, zeroes)
    IN IF s.k = "raise" THEN s ELSE SetGroundset(parent1, gs, s, order)

(* ------------------- SignedSubsetElement methods ----------------------- *)
\* __call__: the sign of var; a ValueError when var is in none of the sets.
Sign(X, var) ==
    IF var \in X.p THEN 1
    ELSE IF var \in X.n THEN -1
    ELSE IF var \in X.z THEN 0
    ELSE Raise("ValueError", "Not in groundset")

support_positives(X) == X.p

support(X) == X.p \cup X.n

\* __eq__
Eq(X, Y) ==
    /\ Y.k = "Element"
    /\ X.p = Y.p
    /\ X.n = Y.n
    /\ X.z = Y.z

\* X in covs, for a list covs (== on each member)
In(X, covs) == \E i \in DOMAIN covs : Eq(covs[i], X)

\* __iter__: the signs in ground-set order
__iter__(X) == List([i \in DOMAIN X.g |-> PyInt(Sign(X, X.g[i]))])

\* str() of a sign and eval() of the text it gives
str(sign) == CASE sign = 1 -> "1" [] sign = -1 -> "-1" [] sign = 0 -> "0"
eval(text) == CASE text = "1" -> 1 [] text = "-1" -> -1 [] text = "0" -> 0

to_list_unsigned(X) ==
    List([i \in DOMAIN X.g |-> PyInt(IF Sign(X, X.g[i]) = 0 THEN 0 ELSE 1)])

\* to_list: the signs are printed, joined by commas and evaluated as a list
to_list(X) == List([i \in DOMAIN X.g |-> PyInt(eval(str(Sign(X, X.g[i]))))])

__copy__(X) ==
    __init__(X.parent, None, List(X.g), Coll(X.p), Coll(X.n), Coll(X.z), <<>>)

neg_unswapped(X) == __copy__(X)

\* __neg__
neg(X) ==
    LET N == __copy__(X)
    IN IF N.k = "raise" THEN N
       ELSE Return([N.v EXCEPT !.p = X.n, !.n = X.p])

is_zero(X) == Cardinality({e \in Range(X.g) : Sign(X, e) # 0}) = 0

composition_right(X, Y, order) ==
    LET sgn(e) == IF Sign(Y, e) \in {1, -1} THEN Sign(Y, e) ELSE Sign(X, e)
    IN __init__(X.parent, None, None,
                Coll({e \in Range(X.g) : sgn(e) = 1}),
                Coll({e \in Range(X.g) : sgn(e) = -1}),
                Coll({e \in Range(X.g) : sgn(e) = 0}), order)

\* composition: the result is built without a ground set, so it takes its
\* parent's, or lists its labels in the iteration order of this run.
composition(X, Y, order) ==
    LET sgn(e) == IF Sign(X, e) \in {1, -1} THEN Sign(X, e) ELSE Sign(Y, e)
    IN __init__(X.parent, None, None,
                Coll({e \in Range(X.g) : sgn(e) = 1}),
                Coll({e \in Range(X.g) : sgn(e) = -1}),
                Coll({e \in Range(X.g) : sgn(e) \notin {1, -1}}), order)

separation_set_half(X, Y) == X.p \cap Y.n

separation_set(X, Y) == (X.p \cap Y.n) \cup (X.n \cap Y.p)

is_conformal_with_subsets(X, Y) == X.p \subseteq Y.p /\ X.n \subseteq Y.n

is_conformal_with(X, Y) == Cardinality(separation_set(X, Y)) = 0

is_restriction_of(X, Y) == X.p \subseteq Y.p /\ X.n \subseteq Y.n

reorientation_drop(X, change_set, order) ==
    LET A == IF change_set.k = "int" THEN {change_set.v} ELSE change_set.v
    IN __init__(X.parent, None, List(X.g),
                Coll(X.p \ A), Coll(X.n \ A), None, <<>>)

\* reorientation: a label of the ground set stands for the set holding it;
\* anything else goes through set(), which fails on an integer.  The labels
\* of the set are tested in its iteration order, order in this run, and the
\* first one outside the ground set is named in the error.
reorientation(X, change_set, order) ==
    IF change_set.k = "int" /\ change_set.v \notin Range(X.g)
    THEN Raise("TypeError", "'int' object is not iterable")
    ELSE LET A == IF change_set.k = "int" THEN {change_set.v} ELSE change_set.v
             it == SetToList(A, order)
             out == {k \in DOMAIN it : it[k] \notin Range(X.g)}
             p == (X.p \ A) \cup (X.n \cap A)
             n == (X.n \ A) \cup (X.p \cap A)
         IN IF out # {}
            THEN Raise("ValueError",
                       ToString(it[CHOOSE k \in out : \A j \in out : k <= j])
                           \o " is not in the ground set")
            ELSE __init__(X.parent, None, List(X.g), Coll(p), Coll(n), None, <<>>)

(* ------------------------ constructor calls ---------------------------- *)
Labels == 0 .. (MaxGround - 1)
GivenGroundset == [i \in 1..MaxGround |-> i - 1]
Tokens == {PyInt(-1), PyInt(0), PyInt(1), PyInt(2),
           PyStr("+"), PyStr("-"), PyStr("0"), PyStr(""), PyStr("x"), PyStr("y")}
Vectors == UNION {[1..n -> Tokens] : n \in 1..MaxLen}
LabelSets == SUBSET Labels
Parents == {None, ParentObj(None, FALSE), ParentObj(List(GivenGroundset), TRUE)}
GroundsetArgs == {None, List(GivenGroundset)}

Call(parent, data, gs, p, n, z) ==
    [op |-> "__init__", parent |-> parent, data |-> data, groundset |-> gs,
     positives |-> p, negatives |-> n, zeroes |-> z]

\* The labels of the element a call builds: the set that is listed when the
\* call has no ground set to take.
LabelsOf(out) == IF out.k = "return" THEN out.v.p \cup out.v.n \cup out.v.z ELSE {}

\* One constructor call; the order in which its set of labels is iterated is
\* the run's.
New(parent, data, gs, p, n, z) ==
    \E order \in IterationOrders(LabelsOf(__init__(parent, data, gs, p, n, z, <<>>))) :
        /\ call' = Call(parent, data, gs, p, n, z)
        /\ result' = [op |-> "__init__",
                      out |-> __init__(parent, data, gs, p, n, z, order)]
        /\ UNCHANGED <<groundset, covectors>>

NewFromVector ==
    /\ call.op = "none"
    /\ \E parent \in Parents, gs \in GroundsetArgs, v \in Vectors :
           New(parent, Tuple(v), gs, None, None, None)

NewFromTuples ==
    /\ call.op = "none"
    /\ \E parent \in Parents, gs \in GroundsetArgs, n \in 1..3 :
           \E d \in [1..n -> LabelSets] :
               New(parent, Tuple([i \in 1..n |-> Coll(d[i])]), gs, None, None, None)

NewFromDict ==
    /\ call.op = "none"
    /\ \E parent \in Parents, gs \in GroundsetArgs, K \in SUBSET DictKeys :
           \E d \in [K -> LabelSets] :
               /\ Cardinality(K) <= 3
               /\ New(parent, Dict(d), gs, None, None, None)

NewFromKeywords ==
    /\ call.op = "none"
    /\ \E parent \in Parents, gs \in GroundsetArgs :
           \E p, n, z \in {None} \cup {Coll(S) : S \in LabelSets} :
               New(parent, None, gs, p, n, z)

\* data (or the first positional argument) is an element built before
NewFromElement ==
    /\ call.op = "__init__"
    /\ call.data.k # "Element"
    /\ call.parent.k # "Element"
    /\ result.out.k = "return"
    /\ result.out.v.k = "Element"
    /\ \E parent \in Parents, gs \in GroundsetArgs :
          \/ New(parent, result.out.v, gs, None, None, None)
          \/ New(result.out.v, None, gs, None, None, None)

\* the first positional argument is the data
NewPositional ==
    /\ call.op = "none"
    /\ \E v \in Vectors : New(Tuple(v), None, None, None, None, None)


\* the element just built is read back; the arguments that built it are kept
ReadBack(op, out) ==
    /\ call.op = "__init__"
    /\ result.out.k = "return"
    /\ call' = [call EXCEPT !.op = op]
    /\ result' = [op |-> op, out |-> Return(out)]
    /\ UNCHANGED <<groundset, covectors>>

Iter == ReadBack("__iter__", __iter__(result.out.v))

ToList == ReadBack("to_list", to_list(result.out.v))

InitNew ==
    /\ groundset = <<>>
    /\ covectors = <<>>
    /\ call = [op |-> "none", data |-> None, parent |-> None]
    /\ result = [op |-> "none", out |-> None]

NextNew ==
    \/ NewFromKeywords
    \/ NewFromVector
    \/ NewFromTuples
    \/ NewFromDict
    \/ NewFromElement
    \/ Iter
    \/ ToList
    \/ NewPositional

SpecNew == InitNew /\ [][NextNew]_vars

(* -------------------- CovectorOrientedMatroid -------------------------- *)
\* The matroid as the parent of its elements: it has groundset() once
\* __init__ has run, and it defines face_lattice.
Matroid(gs) == ParentObj(List(gs), TRUE)

\* __init__(data, groundset): every entry of data becomes an element whose
\* parent is the matroid under construction (which has no _groundset yet).
\* orders[i] is the order in which the set of labels of entry i is iterated.
CovectorOrientedMatroid(data, gsarg, orders) ==
    LET made == [i \in DOMAIN data |->
                    __init__(ParentObj(None, TRUE), data[i], gsarg,
                             None, None, None, orders[i])]
        failed == {i \in DOMAIN data : made[i].k = "raise"}
        first == CHOOSE i \in failed : \A j \in failed : i <= j
        gs == IF gsarg.k = "None" THEN made[1].v.g ELSE gsarg.v
    IN IF failed # {} THEN made[first]
       ELSE IF gsarg.k = "None" /\ Len(data) = 0
            THEN Raise("IndexError", "list index out of range")
       ELSE IF gsarg.k = "None" /\ \E i \in DOMAIN data : made[i].v.g # gs
            THEN Raise("ValueError", "Groundsets must be the same")
       ELSE Return([groundset |-> gs,
                    covectors |-> [i \in DOMAIN data |->
                                      [made[i].v EXCEPT !.parent = Matroid(gs)]]])

\* One candidate Z of the witness scan of axiom 4, entered with found = FALSE:
\* found after the loop over f.
Candidate(Z, e, ze, xy, found) ==
    IF Sign(Z, e) = 0
    THEN ~(\E f \in ze : Sign(Z, f) # Sign(xy, f))
    ELSE found

RECURSIVE ScanFrom_nobreak(_, _, _, _, _, _)
ScanFrom_nobreak(covs, k, e, ze, xy, found) ==
    IF k > Len(covs) THEN found
    ELSE ScanFrom_nobreak(covs, k + 1, e, ze, xy,
                          Candidate(covs[k], e, ze, xy, FALSE))

RECURSIVE ScanFrom(_, _, _, _, _, _)
\* for Z in covectors: if found: break ...
ScanFrom(covs, k, e, ze, xy, found) ==
    IF k > Len(covs) THEN found
    ELSE IF found THEN found
    ELSE ScanFrom(covs, k + 1, e, ze, xy, Candidate(covs[k], e, ze, xy, found))

\* The body of `for Y in covectors`: the message raised, or "" for none.
InnerBody(covs, gs, X, Y) ==
    LET E == separation_set(X, Y)
        ze == Range(gs) \ E
        xy == composition(X, Y, <<>>).v
    IN IF ~In(composition(X, Y, <<>>).v, covs) THEN "Composition must be in vectors"
       ELSE IF \E e \in E : ~ScanFrom(covs, 1, e, ze, xy, FALSE)
            THEN "weak elimination failed"
            ELSE ""

\* The body of `for X in covectors`, after the test of is_zero.
OuterBody(covs, gs, X) ==
    LET bad == {j \in DOMAIN covs : InnerBody(covs, gs, X, covs[j]) # ""}
        first == CHOOSE j \in bad : \A l \in bad : j <= l
    IN IF ~In(neg(X).v, covs) THEN "Every element needs an opposite"
       ELSE IF bad # {} THEN InnerBody(covs, gs, X, covs[first])
       ELSE ""

\* is_valid().  zero_fouind is assigned and never read; zero_found is bound
\* only by an iteration whose X is zero, and is then True.
is_valid(covs, gs) ==
    LET bad == {i \in DOMAIN covs : OuterBody(covs, gs, covs[i]) # ""}
        first == CHOOSE i \in bad : \A l \in bad : i <= l
        zero_found == IF \E i \in DOMAIN covs : is_zero(covs[i])
                      THEN Return(TRUE) ELSE None
    IN IF bad # {} THEN Raise("ValueError", OuterBody(covs, gs, covs[first]))
       ELSE IF zero_found.k = "None"
            THEN Raise("UnboundLocalError",
                       "local variable 'zero_found' referenced before assignment")
       ELSE IF ~zero_found.v
            THEN Raise("ValueError", "Empty set is required")
       ELSE Return(TRUE)

RECURSIVE StopInner(_, _, _, _)
\* The first iteration of `for Y in covectors`, from the j-th on, whose body
\* on (covs[i], covs[j]) raises; Len(covs) + 1 when none does.
StopInner(covs, gs, i, j) ==
    IF j > Len(covs) THEN j
    ELSE IF InnerBody(covs, gs, covs[i], covs[j]) # "" THEN j
    ELSE StopInner(covs, gs, i, j + 1)

RECURSIVE StopAt(_, _, _)
RECURSIVE StopAfter(_, _, _, _)
\* Where is_valid() stops, walking `for X in covectors` from the i-th on:
\* <<i, 0>> when -covs[i] is missing, <<i, j>> when the body on
\* (covs[i], covs[j]) raises, <<Len(covs) + 1, 1>> when the loop runs out.
StopAt(covs, gs, i) ==
    IF i > Len(covs) THEN <<i, 1>>
    ELSE IF ~In(neg(covs[i]).v, covs) THEN <<i, 0>>
    ELSE StopAfter(covs, gs, i, StopInner(covs, gs, i, 1))

\* j is where the inner loop of the i-th iteration stopped.
StopAfter(covs, gs, i, j) ==
    IF j <= Len(covs) THEN <<i, j>> ELSE StopAt(covs, gs, i + 1)

Rels_conformal(els) ==
    {r \in {<<els[j], els[i]>> : i, j \in DOMAIN els} :
        is_conformal_with(r[1], r[2])}

\* The relation pairs of face_poset / face_lattice over the list els.
Rels(els) ==
    {r \in {<<els[j], els[i]>> : i, j \in DOMAIN els} :
        is_conformal_with(r[1], r[2]) /\ support(r[1]) \subseteq support(r[2])}

face_poset(covs) == Return([els |-> covs, rels |-> Rels(covs)])

\* copy.deepcopy of a list: deepcopy calls x.__deepcopy__(memo) on every
\* member, and SignedSubsetElement.__deepcopy__ takes no memo.
deepcopy(covs) ==
    IF Len(covs) = 0 THEN Return(covs)
    ELSE Raise("TypeError",
               "__deepcopy__() takes 1 positional argument but 2 were given")

face_lattice(covs) ==
    LET els == deepcopy(covs)
    IN IF els.k = "raise" THEN els
       ELSE Return([els |-> Append(els.v, PyInt(1)),
                    rels |-> Rels(els.v) \cup
                             {<<els.v[i], PyInt(1)>> : i \in DOMAIN els.v}])

\* topes() of the owning system: the covectors maximal in the face poset.
topes(covs) ==
    {i \in DOMAIN covs :
        \A j \in DOMAIN covs :
            <<covs[i], covs[j]>> \in Rels(covs) => Eq(covs[i], covs[j])}

\* is_tope()
is_tope(X, covs) ==
    IF X.parent.face_lattice
    THEN Raise("TypeError",
               "Topes are only implemented if .face_lattice() is implemented")
    ELSE Return(\E i \in topes(covs) : Eq(covs[i], X))

(* ------------------------ systems constructed -------------------------- *)
\* The sign vectors of length n, in lexicographic order, as raw data.
VecList(n) ==
    [i \in 1..(3^n) |->
        Tuple([j \in 1..n |-> PyInt((((i - 1) \div (3^(n - j))) % 3) - 1)])]

\* The ground set ['e', 'f', ...] of n characters.
Named(n) == [i \in 1..n |-> 100 + i]

RECURSIVE Pick(_, _, _)
\* The members of the list L whose index is in I, in the order of L.
Pick(L, I, k) ==
    IF k > Len(L) THEN <<>>
    ELSE IF k \in I THEN <<L[k]>> \o Pick(L, I, k + 1)
    ELSE Pick(L, I, k + 1)

Vec(s) == Tuple([i \in DOMAIN s |-> PyInt(s[i])])

\* OrientedMatroid([[1],[-1],[0]], groundset=['e'], key='covector')
ScenarioA == <<Vec(<<1>>), Vec(<<-1>>), Vec(<<0>>)>>

\* The 13 covectors C of the class docstring.
ScenarioC ==
    <<Vec(<<1, 1, 1>>), Vec(<<1, 1, 0>>), Vec(<<1, 1, -1>>), Vec(<<1, 0, -1>>),
      Vec(<<1, -1, -1>>), Vec(<<0, -1, -1>>), Vec(<<-1, -1, -1>>),
      Vec(<<0, 1, 1>>), Vec(<<-1, 1, 1>>), Vec(<<-1, 0, 1>>), Vec(<<-1, -1, 1>>),
      Vec(<<-1, -1, 0>>), Vec(<<0, 0, 0>>)>>

\* Lists of at most MaxCov sign vectors over at most MaxGround elements.
ShortData ==
    UNION {UNION {[1..m -> Range(VecList(n))] : m \in 0..MaxCov} : n \in 1..MaxGround}

\* Every sub-list of the nine sign vectors over two elements.
PairData == {Pick(VecList(2), I, 1) : I \in SUBSET (1..Len(VecList(2)))}

\* The docstring's example, whole or with one covector left out.
ExampleData ==
    {ScenarioC} \cup
    {Pick(ScenarioC, (1..Len(ScenarioC)) \ {i}, 1) : i \in 1..Len(ScenarioC)}

\* Lists of one or two entries (positives, negatives, zeroes) given as sets
\* of the labels 'e', 'f', each label in one of the three sets.
SetData ==
    LET entries == {Tuple(<<Coll({e \in {ord("e"), ord("f")} : s[e] = 1}),
                            Coll({e \in {ord("e"), ord("f")} : s[e] = -1}),
                            Coll({e \in {ord("e"), ord("f")} : s[e] = 0})>>) :
                        s \in [{ord("e"), ord("f")} -> {-1, 0, 1}]}
    IN UNION {[1..m -> entries] : m \in 1..2}

DataWidth(data) == IF Len(data) = 0 THEN 1 ELSE Len(data[1].v)

\* The orders in which the sets of labels of the entries of data can be
\* iterated, entry by entry; no set is listed when a ground set is given.
OrdersOf(data, gsarg) ==
    LET labels == [i \in DOMAIN data |->
                      IF gsarg.k # "None" THEN {}
                      ELSE LabelsOf(__init__(ParentObj(None, TRUE), data[i], gsarg,
                                             None, None, None, <<>>))]
    IN {orders \in [DOMAIN data -> UNION {IterationOrders(labels[i]) : i \in DOMAIN data}] :
           \A i \in DOMAIN data : orders[i] \in IterationOrders(labels[i])}

Construct(data, gsarg) ==
    \E orders \in OrdersOf(data, gsarg) :
        \E M \in {CovectorOrientedMatroid(data, gsarg, orders)} :
            /\ M.k = "return"
            /\ groundset = M.v.groundset
            /\ covectors = M.v.covectors
            /\ call = [op |-> "none"]
            /\ result = [op |-> "none", out |-> None]

Init ==
    \/ \E data \in ShortData \cup PairData \cup ExampleData :
          \E gsarg \in {None, List(Named(DataWidth(data)))} :
              Construct(data, gsarg)
    \/ Construct(ScenarioA, List(<<ord("e")>>))
    \/ \E data \in SetData : Construct(data, None)

Invoke(op, args, res) ==
    /\ call.op = "none"
    /\ call' = [op |-> op, args |-> args]
    /\ result' = [op |-> op, out |-> res]
    /\ UNCHANGED <<groundset, covectors>>

IsValid == Invoke("is_valid", <<>>, is_valid(covectors, groundset))

FacePoset == Invoke("face_poset", <<>>, face_poset(covectors))

FaceLattice == Invoke("face_lattice", <<>>, face_lattice(covectors))

\* One run of `for Z in covectors` inside is_valid(): the value of found.
\* The run is on a pair is_valid() comes to, the composition is a covector,
\* and no scan before it failed: `for e in E` takes the labels of S(X,Y) in
\* the iteration order of the set.
WitnessScan ==
    /\ call.op = "none"
    /\ \E stop \in {StopAt(covectors, groundset, 1)} :
        \E i, j \in DOMAIN covectors :
          /\ i < stop[1] \/ (i = stop[1] /\ j <= stop[2])
          /\ \E xy \in {composition(covectors[i], covectors[j], <<>>).v},
                S \in {separation_set(covectors[i], covectors[j])} :
                /\ In(xy, covectors)
                /\ \E order \in IterationOrders(S) :
                      \E k \in DOMAIN order :
                        /\ \A d \in 1..(k - 1) :
                               ScanFrom(covectors, 1, order[d],
                                        Range(groundset) \ S, xy, FALSE)
                        /\ Invoke("scan", <<i, j, order[k]>>,
                                  Return(ScanFrom(covectors, 1, order[k],
                                                  Range(groundset) \ S, xy, FALSE)))

IsTope ==
    \E i \in DOMAIN covectors :
        Invoke("is_tope", <<i>>, is_tope(covectors[i], covectors))

Next ==
    \/ IsValid
    \/ FacePoset
    \/ FaceLattice
    \/ IsTope
    \/ WitnessScan

Spec == Init /\ [][Next]_vars

(* ------------------------- pairs of elements --------------------------- *)
InitPair ==
    \E n \in 1..MaxGround :
        \E data \in [1..2 -> Range(VecList(n))] :
            \E gsarg \in {None, List(Named(n))} :
                Construct(data, gsarg)

Composition ==
    \E i, j \in DOMAIN covectors :
        Invoke("composition", <<i, j>>, composition(covectors[i], covectors[j], <<>>))

SeparationSet ==
    \E i, j \in DOMAIN covectors :
        Invoke("separation_set", <<i, j>>,
               Return(separation_set(covectors[i], covectors[j])))

IsConformalWith ==
    \E i, j \in DOMAIN covectors :
        Invoke("is_conformal_with", <<i, j>>,
               Return(is_conformal_with(covectors[i], covectors[j])))

IsRestrictionOf ==
    \E i, j \in DOMAIN covectors :
        Invoke("is_restriction_of", <<i, j>>,
               Return(is_restriction_of(covectors[i], covectors[j])))

\* Labels outside every ground set.
Foreign == {-1, 9}

\* change sets: sets of labels, some of them possibly foreign, or one label
ChangeSets ==
    {Coll(A) : A \in SUBSET (Range(groundset) \cup Foreign)}
        \cup {PyInt(l) : l \in Range(groundset) \cup Foreign}

\* set(change_set), or the set holding the label
ChangeSet(A) == IF A.k = "int" THEN {A.v} ELSE A.v

Reorientation ==
    /\ call.op = "none"
    /\ \E i \in DOMAIN covectors, A \in ChangeSets :
          \E order \in IterationOrders(ChangeSet(A)) :
              /\ call' = [op |-> "reorientation", self |-> i, change_set |-> A]
              /\ result' = [op |-> "reorientation",
                            out |-> reorientation(covectors[i], A, order)]
              /\ UNCHANGED <<groundset, covectors>>

\* the element returned is reoriented by the same change set
ReorientationAgain ==
    /\ call.op = "reorientation"
    /\ result.out.k = "return"
    /\ \E order \in IterationOrders(ChangeSet(call.change_set)) :
          /\ call' = [call EXCEPT !.op = "reorientation_again"]
          /\ result' = [op |-> "reorientation_again",
                        out |-> reorientation(result.out.v, call.change_set, order)]
          /\ UNCHANGED <<groundset, covectors>>

NextPair ==
    \/ Composition
    \/ SeparationSet
    \/ IsConformalWith
    \/ IsRestrictionOf
    \/ Reorientation
    \/ ReorientationAgain

SpecPair == InitPair /\ [][NextPair]_vars

(* ------------------------------ claims --------------------------------- *)
E == Range(groundset)
Arg(k) == covectors[call.args[k]]

\* S(X,Y) = {e : X(e) = -Y(e) /= 0}, read off the signs.
SepBySign(X, Y) == {e \in E : Sign(X, e) = -Sign(Y, e) /\ Sign(X, e) # 0}
SuppBySign(X) == {e \in E : Sign(X, e) # 0}

\* The collection as a set of sign vectors over E, and the four axioms on it.
SignVector(X) == [e \in E |-> Sign(X, e)]
Collection == {SignVector(covectors[i]) : i \in DOMAIN covectors}
Compose(u, v) == [e \in E |-> IF u[e] # 0 THEN u[e] ELSE v[e]]
Sep(u, v) == {e \in E : u[e] = -v[e] /\ u[e] # 0}
Axiom1 == [e \in E |-> 0] \in Collection
Axiom2 == \A u \in Collection : [e \in E |-> -u[e]] \in Collection
Axiom3 == \A u, v \in Collection : Compose(u, v) \in Collection
Axiom4 ==
    \A u, v \in Collection : \A e \in Sep(u, v) :
        \E w \in Collection :
            /\ w[e] = 0
            /\ \A f \in E \ Sep(u, v) : w[f] = Compose(u, v)[f]
Axioms == Axiom1 /\ Axiom2 /\ Axiom3 /\ Axiom4

SignsOf(X) == [j \in DOMAIN groundset |-> Sign(X, groundset[j])]
Built(data) ==
    [i \in DOMAIN covectors |-> SignsOf(covectors[i])]
        = [i \in DOMAIN data |-> [j \in DOMAIN data[i].v |-> data[i].v[j].v]]
IsScenarioA == Built(ScenarioA) /\ groundset = <<ord("e")>>
IsScenarioC == Built(ScenarioC)

\* C1: is_valid() returns True exactly when the four covector axioms hold
\* for the collection, and raises otherwise; it returns True for the system
\* {[1],[-1],[0]} on ['e'] and for the 13-covector example.
Thm_C1 ==
    call.op = "is_valid" =>
        /\ IF Axioms THEN result.out = Return(TRUE) ELSE result.out.k = "raise"
        /\ (IsScenarioA \/ IsScenarioC) => result.out = Return(TRUE)

Wit_C1 == call.op = "is_valid" /\ IsScenarioC /\ result.out = Return(TRUE)

Wit_C1_invalid ==
    /\ call.op = "is_valid"
    /\ Axiom1 /\ Axiom2 /\ Axiom3 /\ ~Axiom4
    /\ result.out.k = "raise"

\* C2: on a collection with no all-zero covector is_valid() raises the
\* 'Empty set is required' validation error.
Claim_C2 ==
    (call.op = "is_valid" /\ ~(\E i \in DOMAIN covectors : support(covectors[i]) = {}))
        => result.out = Raise("ValueError", "Empty set is required")

\* The 'Empty set is required' error is raised on no collection at all.
EmptySetErrorNeverRaised ==
    call.op = "is_valid" => result.out # Raise("ValueError", "Empty set is required")

\* C3: every SignedSubset the constructor returns has P, N, Z pairwise
\* disjoint with union its ground set, so that every e of the ground set has
\* exactly one sign.
Claim_C3 ==
    (call.op = "__init__" /\ result.out.k = "return") =>
        LET X == result.out.v
        IN /\ X.p \cap X.n = {}
           /\ X.p \cap X.z = {}
           /\ X.n \cap X.z = {}
           /\ X.p \cup X.n \cup X.z = Range(X.g)
           /\ \A e \in Range(X.g) :
                 /\ Sign(X, e) \in {-1, 0, 1}
                 /\ Cardinality({S \in {"p", "n", "z"} : e \in X[S]}) = 1

\* What the constructor does keep: the three sets cover the ground set.
CoversGroundset ==
    (call.op = "__init__" /\ result.out.k = "return") =>
        result.out.v.p \cup result.out.v.n \cup result.out.v.z = Range(result.out.v.g)

\* C4 as stated: conformal, empty separation set, and P(X) in P(Y) with
\* N(X) in N(Y) are equivalent, so is_conformal_with and is_restriction_of
\* return the same boolean.
Claim_C4 ==
    call.op = "is_conformal_with" =>
        /\ result.out.v = (separation_set(Arg(1), Arg(2)) = {})
        /\ result.out.v = (Arg(1).p \subseteq Arg(2).p /\ Arg(1).n \subseteq Arg(2).n)
        /\ result.out.v = is_restriction_of(Arg(1), Arg(2))

\* C4, amended: is_conformal_with(X,Y) is true exactly when no e has
\* X(e) = -Y(e) /= 0, and is_restriction_of(X,Y) implies it (not conversely).
Thm_C4 ==
    /\ call.op = "is_conformal_with" =>
          result.out.v = (SepBySign(Arg(1), Arg(2)) = {})
    /\ (call.op = "is_restriction_of" /\ result.out.v) =>
          SepBySign(Arg(1), Arg(2)) = {}

Wit_C4 ==
    /\ call.op = "is_conformal_with"
    /\ result.out.v
    /\ ~is_restriction_of(Arg(1), Arg(2))
    /\ SuppBySign(Arg(1)) # {}
    /\ SuppBySign(Arg(2)) # {}

\* C5: composition(X,Y) is a signed subset over E whose sign at e is X(e)
\* when X(e) /= 0 and Y(e) otherwise, and whose P, N, Z partition E.
Thm_C5 ==
    call.op = "composition" =>
        /\ result.out.k = "return"
        /\ LET Z == result.out.v
           IN /\ Z.k = "Element"
              /\ Z.g = groundset
              /\ \A e \in E :
                    Sign(Z, e) = IF Sign(Arg(1), e) # 0
                                 THEN Sign(Arg(1), e) ELSE Sign(Arg(2), e)
              /\ \A e \in E : Sign(Z, e) = 0 <=>
                    (Sign(Arg(1), e) = 0 /\ Sign(Arg(2), e) = 0)
              /\ Z.p \cup Z.n \cup Z.z = E
              /\ Z.p \cap Z.n = {} /\ Z.p \cap Z.z = {} /\ Z.n \cap Z.z = {}

Wit_C5 ==
    /\ call.op = "composition"
    /\ result.out.k = "return"
    /\ \E e, f \in E :
          /\ Sign(Arg(1), e) = 0 /\ Sign(Arg(2), e) = -1 /\ Sign(result.out.v, e) = -1
          /\ Sign(Arg(1), f) = 1 /\ Sign(Arg(2), f) = -1 /\ Sign(result.out.v, f) = 1

\* C6: X o Y and Y o X agree at every f outside S(X,Y), and X o Y == Y o X
\* exactly when S(X,Y) is empty.
Thm_C6 ==
    call.op = "composition" =>
        LET XY == result.out.v
            YX == composition(Arg(2), Arg(1), <<>>).v
            S == separation_set(Arg(1), Arg(2))
        IN /\ \A f \in E \ S : Sign(XY, f) = Sign(YX, f)
           /\ Eq(XY, YX) <=> S = {}

Wit_C6 ==
    /\ call.op = "composition"
    /\ separation_set(Arg(1), Arg(2)) # {}
    /\ E \ separation_set(Arg(1), Arg(2)) # {}
    /\ ~Eq(result.out.v, composition(Arg(2), Arg(1), <<>>).v)

\* C7: the pairs face_poset() hands over are exactly the (Y,X) of covectors
\* with S(Y,X) empty and supp(Y) within supp(X); for {+,-,0} on one element
\* zero is below + and -, which are incomparable.
Thm_C7 ==
    call.op = "face_poset" =>
        /\ result.out.k = "return"
        /\ result.out.v.els = covectors
        /\ result.out.v.rels =
              {r \in Range(covectors) \X Range(covectors) :
                  SepBySign(r[1], r[2]) = {} /\ SuppBySign(r[1]) \subseteq SuppBySign(r[2])}
        /\ IsScenarioA =>
              /\ <<covectors[3], covectors[1]>> \in result.out.v.rels
              /\ <<covectors[3], covectors[2]>> \in result.out.v.rels
              /\ <<covectors[1], covectors[2]>> \notin result.out.v.rels
              /\ <<covectors[2], covectors[1]>> \notin result.out.v.rels

Wit_C7 ==
    /\ call.op = "face_poset"
    /\ IsScenarioA
    /\ <<covectors[3], covectors[1]>> \in result.out.v.rels
    /\ <<covectors[1], covectors[3]>> \notin result.out.v.rels

\* C8: face_lattice() completes and hands over the covectors plus one top
\* element, with the face_poset pairs plus (X, top) for every covector X;
\* the top equals no covector.
Claim_C8 ==
    call.op = "face_lattice" =>
        /\ result.out.k = "return"
        /\ \E top \in Range(result.out.v.els) :
              /\ ~In(top, covectors)
              /\ result.out.v.els = Append(covectors, top)
              /\ result.out.v.rels =
                    Rels(covectors) \cup {<<covectors[i], top>> : i \in DOMAIN covectors}

\* C9: is_tope() fails with the capability error exactly when the owning
\* system exposes no face_lattice; when it does, is_tope() answers whether
\* the covector is maximal in the face poset.
Claim_C9 ==
    call.op = "is_tope" =>
        /\ (result.out.k = "raise" /\ result.out.type = "TypeError") <=> ~Arg(1).parent.face_lattice
        /\ Arg(1).parent.face_lattice =>
              result.out = Return(\A j \in DOMAIN covectors :
                                 <<Arg(1), covectors[j]>> \in Rels(covectors)
                                     => Eq(Arg(1), covectors[j]))

\* C10: a ternary vector holding, at any position, a token outside
\* {-1, 0, 1, '+', '-', '0', ''} is rejected and no object is returned;
\* recognised tokens map 1,'+' to positive, -1,'-' to negative, 0,'0','' to zero.
IsTokenVector(d) ==
    /\ d.k = "tuple"
    /\ \A i \in DOMAIN d.v : d.v[i].k \in {"int", "str"}
Claim_C10 ==
    (call.op = "__init__" /\ call.parent.k \in {"None", "Parent"}
        /\ IsTokenVector(call.data) /\ call.positives.k = "None") =>
        IF \E i \in DOMAIN call.data.v : TokenSign(call.data.v[i]) = 2
        THEN result.out.k = "raise"
        ELSE result.out.k = "return" =>
                \A i \in DOMAIN call.data.v :
                    Sign(result.out.v, result.out.v.g[i]) = TokenSign(call.data.v[i])

\* C11: reorientation by a change set A inside the ground set (or by one of
\* its labels) returns the element with positives (P \ A) u (N n A),
\* negatives (N \ A) u (P n A) and the same zeroes and ground set, and
\* reorienting that element by A again returns an element equal to X.
ChangeSetOf(c) == IF c.k = "int" THEN {c.v} ELSE c.v
Thm_C11 ==
    call.op \in {"reorientation", "reorientation_again"}
        /\ ChangeSetOf(call.change_set) \subseteq E =>
    LET X == covectors[call.self]
        A == ChangeSetOf(call.change_set)
        R == result.out.v
    IN /\ result.out.k = "return"
       /\ R.k = "Element"
       /\ R.g = X.g
       /\ call.op = "reorientation" =>
             /\ R.p = (X.p \ A) \cup (X.n \cap A)
             /\ R.n = (X.n \ A) \cup (X.p \cap A)
             /\ R.z = X.z
             /\ \A e \in E : Sign(R, e) = IF e \in A THEN -Sign(X, e)
                                                     ELSE Sign(X, e)
       /\ call.op = "reorientation_again" => Eq(R, X) /\ Eq(X, R)

\* X has a positive and a negative label in A, and has been reoriented twice
Wit_C11 ==
    /\ call.op = "reorientation_again"
    /\ result.out.k = "return"
    /\ covectors[call.self].p \cap ChangeSetOf(call.change_set) # {}
    /\ covectors[call.self].n \cap ChangeSetOf(call.change_set) # {}
    /\ ChangeSetOf(call.change_set) \subseteq E

\* a single label of the ground set is taken as the change set
Wit_C11_label ==
    /\ call.op = "reorientation"
    /\ call.change_set.k = "int"
    /\ result.out.k = "return"
    /\ Sign(result.out.v, call.change_set.v) = 1

\* a foreign label in the change set is refused
ForeignLabelRefused ==
    call.op = "reorientation" /\ ~(ChangeSetOf(call.change_set) \subseteq E)
        => result.out.k = "raise"

\* C12: an element built from a ternary vector v of recognised tokens, read
\* back in ground-set order, gives v again, token for token (as written).
VectorArg == IF call.data.k = "tuple" THEN call.data ELSE call.parent
FromTokenVector ==
    /\ call.op \in {"__iter__", "to_list"}
    /\ call.positives.k = "None"
    /\ call.data.k \in {"tuple", "None"}
    /\ IsTokenVector(VectorArg)
    /\ \A i \in DOMAIN VectorArg.v : TokenSign(VectorArg.v[i]) # 2
Claim_C12 ==
    FromTokenVector =>
        /\ result.out.v.k = "list"
        /\ Len(result.out.v.v) = Len(VectorArg.v)
        /\ \A i \in DOMAIN VectorArg.v :
               /\ VectorArg.v[i].k = "int"
               /\ VectorArg.v[i].v = result.out.v.v[i].v

\* C12 (amended): the sequence read back is the sign vector of v, an integer
\* 1 where v has 1 or '+', -1 where v has -1 or '-', 0 where v has 0, '0'
\* or ''; it is v itself when every token of v is one of the integers.
Thm_C12 ==
    FromTokenVector =>
        /\ result.out.v.k = "list"
        /\ Len(result.out.v.v) = Len(VectorArg.v)
        /\ \A i \in DOMAIN VectorArg.v :
               result.out.v.v[i] = PyInt(TokenSign(VectorArg.v[i]))
        /\ (\A i \in DOMAIN VectorArg.v : VectorArg.v[i].k = "int")
               => result.out.v.v = VectorArg.v

\* a vector with a negative, a positive and a text token has been read back
Wit_C12 ==
    /\ FromTokenVector
    /\ call.op = "to_list"
    /\ \E i, j \in DOMAIN VectorArg.v :
          /\ VectorArg.v[i] = PyInt(-1)
          /\ VectorArg.v[j] = PyStr("+")
          /\ result.out.v.v[i] = PyInt(-1)
          /\ result.out.v.v[j] = PyInt(1)

\* a vector of integers only has been read back
Wit_C12_integers ==
    /\ FromTokenVector
    /\ call.op = "__iter__"
    /\ VectorArg.v = <<PyInt(1), PyInt(-1)>>

\* C13: the scan for (X, Y, e) inside is_valid() ends with found true exactly
\* when some Z of the collection has Z(e) = 0 and Z(f) = (X o Y)(f) for every
\* f outside S(X, Y); the same holds of the collection in any other order;
\* and is_valid() raises 'weak elimination failed' when a scan it comes to
\* finds no witness, and only when some (X, Y, e) has none.
IsWitness(Z, X, Y, e) ==
    /\ Sign(Z, e) = 0
    /\ \A f \in E \ SepBySign(X, Y) :
          Sign(Z, f) = Compose(SignVector(X), SignVector(Y))[f]
HasWitness(X, Y, e) ==
    \E k \in DOMAIN covectors : IsWitness(covectors[k], X, Y, e)
Orders ==
    LET n == Len(covectors)
        rotations == {[k \in 1..n |-> ((k + r) % n) + 1] : r \in 0..(n - 1)}
        reversals == {[k \in 1..n |-> n + 1 - f[k]] : f \in rotations}
    IN IF n <= MaxCov + 1
       THEN {f \in [1..n -> 1..n] : \A a, b \in 1..n : f[a] = f[b] => a = b}
       ELSE rotations \cup reversals
ScanIn(f, X, Y, e) ==
    ScanFrom([k \in DOMAIN covectors |-> covectors[f[k]]], 1, e,
             E \ separation_set(X, Y), composition(X, Y, <<>>).v, FALSE)
WeakEliminationFailed == Raise("ValueError", "weak elimination failed")
Thm_C13 ==
    /\ call.op = "scan" =>
          LET X == Arg(1)
              Y == Arg(2)
              e == call.args[3]
          IN /\ result.out.v = HasWitness(X, Y, e)
             /\ \A f \in Orders : ScanIn(f, X, Y, e) = result.out.v
             /\ ~result.out.v =>
                    is_valid(covectors, groundset) = WeakEliminationFailed
    /\ call.op = "is_valid" =>
          /\ result.out = WeakEliminationFailed => ~Axiom4
          /\ Axiom2 /\ Axiom3 /\ ~Axiom4 => result.out = WeakEliminationFailed

\* a witness was found between two candidates that are zero at e and fail
Wit_C13 ==
    /\ call.op = "scan"
    /\ result.out.v
    /\ \E a, b, c \in DOMAIN covectors :
          /\ a < b /\ b < c
          /\ IsWitness(covectors[b], Arg(1), Arg(2), call.args[3])
          /\ \A k \in {a, c} :
                /\ Sign(covectors[k], call.args[3]) = 0
                /\ ~IsWitness(covectors[k], Arg(1), Arg(2), call.args[3])

\* a scan that met candidates zero at e and ended with no witness
Wit_C13_failed ==
    /\ call.op = "scan"
    /\ ~result.out.v
    /\ \E k \in DOMAIN covectors : Sign(covectors[k], call.args[3]) = 0

\* is_valid() raised 'weak elimination failed'
Wit_C13_raised ==
    /\ call.op = "is_valid"
    /\ result.out = WeakEliminationFailed
    /\ Axiom1

\* C14: the relation face_poset() hands over (Y below X iff S(Y,X) is empty
\* and supp(Y) is within supp(X)) is a partial order on the covectors:
\* reflexive, antisymmetric and transitive; and an all-zero covector of the
\* collection is below every covector.
Below(Y, X) == <<Y, X>> \in result.out.v.rels
Thm_C14 ==
    call.op = "face_poset" =>
        LET C == Range(covectors)
        IN /\ result.out.k = "return"
           /\ result.out.v.rels \subseteq C \X C
           /\ \A X \in C : Below(X, X)
           /\ \A X, Y \in C : Below(X, Y) /\ Below(Y, X) => Eq(X, Y) /\ X = Y
           /\ \A X, Y, Z \in C : Below(X, Y) /\ Below(Y, Z) => Below(X, Z)
           /\ \A Z \in C : SuppBySign(Z) = {} => \A X \in C : Below(Z, X)

\* a chain of three covectors starting at zero, and two incomparable ones
Wit_C14 ==
    /\ call.op = "face_poset"
    /\ \E X, Y, Z \in Range(covectors) :
          /\ SuppBySign(Z) = {}
          /\ Below(Z, Y) /\ Below(Y, X) /\ Below(Z, X)
          /\ ~Below(Y, Z) /\ ~Below(X, Y)
    /\ \E X, Y \in Range(covectors) : ~Below(X, Y) /\ ~Below(Y, X)
====
